---- MODULE Spec2Model ----
(***************************************************************************)
(* A model of MangaConverter.py: the name ordering (numeric_sort_key,      *)
(* gather_images), the two encoders (convert_images_to_pdf,                *)
(* convert_folder_to_epub) and the cancellable worker loop (Worker.run).   *)
(*                                                                         *)
(* A file name is a sequence of characters, a character a one-character    *)
(* string (a CJK character is written as its code point, "U5355"), and a   *)
(* path a sequence of names.                                               *)
(***************************************************************************)
EXTENDS Integers, Sequences, FiniteSets, TLC

\* ------------------------------------------------------------------------
\* Characters and Python values
\* ------------------------------------------------------------------------

\* The characters the model uses, in increasing code point order.
CodeOrder ==
    << " ", "\"", "*", ".", "/",
       "0", "1", "2", "3", "4", "5", "6", "7", "8", "9",
       ":", "<", ">", "?",
       "A", "B", "C", "E", "G", "J", "N", "P", "S", "V", "W",
       "\\", "_",
       "a", "b", "c", "d", "e", "f", "g", "h", "i", "j", "k", "l", "m", "n",
       "o", "p", "r", "s", "t", "u", "v", "w", "x", "|",
       "U4ED6", "U5176", "U5316", "U5355", "U55AE", "U603B", "U6C49",
       "U672C", "U7248", "U884C", "U8A8D", "U96C6", "U9ED8" >>

\* The rank of a character in code point order (str comparison compares these).
Ord(c) == CHOOSE i \in 1..Len(CodeOrder) : CodeOrder[i] = c

Digits == <<"0", "1", "2", "3", "4", "5", "6", "7", "8", "9">>

IsDigit(c) == \E i \in 1..10 : Digits[i] = c

DigitVal(c) == (CHOOSE i \in 1..10 : Digits[i] = c) - 1

\* str.lower() on one character.
LowerChar(c) ==
    CASE c = "A" -> "a" [] c = "B" -> "b" [] c = "C" -> "c" [] c = "E" -> "e"
      [] c = "G" -> "g" [] c = "J" -> "j" [] c = "N" -> "n" [] c = "P" -> "p"
      [] c = "S" -> "s" [] c = "V" -> "v" [] c = "W" -> "w"
      [] OTHER -> c

Lower(s) == [i \in 1..Len(s) |-> LowerChar(s[i])]

\* Python values: an int, a str, or a list/tuple of values.
PyInt(n) == [t |-> "int", v |-> n]
PyStr(s) == [t |-> "str", v |-> s]
PyList(l) == [t |-> "list", v |-> l]
PyTuple(l) == [t |-> "tuple", v |-> l]

\* str < str: lexicographic on code points.  "lt", "eq" or "gt".
RECURSIVE StrCmp(_, _)
StrCmp(a, b) ==
    IF a = <<>> /\ b = <<>> THEN "eq"
    ELSE IF a = <<>> THEN "lt"
    ELSE IF b = <<>> THEN "gt"
    ELSE IF Ord(Head(a)) < Ord(Head(b)) THEN "lt"
    ELSE IF Ord(Head(a)) > Ord(Head(b)) THEN "gt"
    ELSE StrCmp(Tail(a), Tail(b))

\* a == b on Python values (never raises: an int and a str are unequal).
RECURSIVE PyEq(_, _)
PyEq(a, b) ==
    IF a.t # b.t THEN FALSE
    ELSE IF a.t \in {"int", "str"} THEN a.v = b.v
    ELSE /\ Len(a.v) = Len(b.v)
         /\ \A i \in 1..Len(a.v) : PyEq(a.v[i], b.v[i])

\* The three-way comparison behind a < b: "lt", "eq", "gt", or "TypeError"
\* when '<' is not supported between the two types.  Sequences compare by
\* their first unequal element, then by length.
RECURSIVE PyCmp(_, _)
PyCmp(a, b) ==
    IF a.t # b.t THEN "TypeError"
    ELSE IF a.t = "int" THEN
        (IF a.v < b.v THEN "lt" ELSE IF a.v > b.v THEN "gt" ELSE "eq")
    ELSE IF a.t = "str" THEN StrCmp(a.v, b.v)
    ELSE LET n == IF Len(a.v) < Len(b.v) THEN Len(a.v) ELSE Len(b.v)
             diff == {i \in 1..n : ~PyEq(a.v[i], b.v[i])}
         IN  IF diff = {} THEN
                 (IF Len(a.v) < Len(b.v) THEN "lt"
                  ELSE IF Len(a.v) > Len(b.v) THEN "gt" ELSE "eq")
             ELSE LET i == CHOOSE j \in diff : \A k \in diff : j <= k
                  IN  PyCmp(a.v[i], b.v[i])

\* list.sort(key=...) on a list of [key, item] pairs: stable, and it raises
\* the TypeError of the first comparison that is not supported.  Each item is
\* inserted into the sorted prefix from the right (for two items: the single
\* comparison second < first).  Returns [ok, v]: ok = FALSE is the TypeError.
RECURSIVE InsertByKey(_, _)
InsertByKey(sorted, x) ==
    IF sorted = <<>> THEN [ok |-> TRUE, v |-> <<x>>]
    ELSE LET last == sorted[Len(sorted)]
             c == PyCmp(x.key, last.key)
         IN  IF c = "TypeError" THEN [ok |-> FALSE, v |-> <<>>]
             ELSE IF c = "lt" THEN
                 LET r == InsertByKey(SubSeq(sorted, 1, Len(sorted) - 1), x)
                 IN  IF r.ok THEN [ok |-> TRUE, v |-> Append(r.v, last)] ELSE r
             ELSE [ok |-> TRUE, v |-> Append(sorted, x)]

RECURSIVE SortByKey(_)
SortByKey(pairs) ==
    IF pairs = <<>> THEN [ok |-> TRUE, v |-> <<>>]
    ELSE LET r == SortByKey(SubSeq(pairs, 1, Len(pairs) - 1))
         IN  IF r.ok THEN InsertByKey(r.v, pairs[Len(pairs)]) ELSE r

\* ------------------------------------------------------------------------
\* safe_filename, numeric_sort_key
\* ------------------------------------------------------------------------

UnsafeChars == {"\\", "/", ":", "*", "?", "\"", "<", ">", "|"}

safe_filename(name) ==
    [i \in 1..Len(name) |-> IF name[i] \in UnsafeChars THEN "_" ELSE name[i]]

\* re.findall(r"\d+", name) with int() applied: the maximal digit runs of
\* name, left to right, as integers.  cur is the run being read (-1: none).
RECURSIVE DigitRuns(_, _)
DigitRuns(name, cur) ==
    IF name = <<>> THEN (IF cur >= 0 THEN <<cur>> ELSE <<>>)
    ELSE IF IsDigit(Head(name)) THEN
        DigitRuns(Tail(name), (IF cur >= 0 THEN cur * 10 ELSE 0) + DigitVal(Head(name)))
    ELSE (IF cur >= 0 THEN <<cur>> ELSE <<>>) \o DigitRuns(Tail(name), -1)

NoDigitSentinel == 999999

numeric_sort_key(name) ==
    LET nums == DigitRuns(name, -1)
    IN  IF nums # <<>>
        THEN PyList([i \in 1..Len(nums) |-> PyInt(nums[i])] \o <<PyStr(name)>>)
        ELSE PyList(<<PyInt(NoDigitSentinel), PyStr(name)>>)

\* ------------------------------------------------------------------------
\* Paths (pathlib.Path)
\* ------------------------------------------------------------------------

\* Path.name and Path.parent; the root is <<>>, its name is "" and it is its
\* own parent.
Name(p) == IF p = <<>> THEN <<>> ELSE p[Len(p)]

Parent(p) == IF p = <<>> THEN <<>> ELSE SubSeq(p, 1, Len(p) - 1)

IsUnder(p, folder) ==
    /\ Len(p) > Len(folder)
    /\ SubSeq(p, 1, Len(folder)) = folder

\* p.relative_to(base): the components of p after base.
RelativeTo(p, base) == SubSeq(p, Len(base) + 1, Len(p))

\* str(path) of a relative path: its names joined by the separator.
RECURSIVE PathStr(_)
PathStr(p) ==
    IF p = <<>> THEN <<>>
    ELSE IF Len(p) = 1 THEN p[1]
    ELSE p[1] \o <<"/">> \o PathStr(Tail(p))

\* Path.suffix and Path.stem: the suffix starts at the last dot of the name,
\* unless that dot is the first or the last character.
LastDot(name) ==
    LET dots == {i \in 1..Len(name) : name[i] = "."}
    IN  IF dots = {} THEN 0 ELSE CHOOSE i \in dots : \A j \in dots : j <= i

Suffix(name) ==
    LET i == LastDot(name)
    IN  IF 1 < i /\ i < Len(name) THEN SubSeq(name, i, Len(name)) ELSE <<>>

Stem(name) == SubSeq(name, 1, Len(name) - Len(Suffix(name)))

ExtJpg == <<".", "j", "p", "g">>
ExtJpeg == <<".", "j", "p", "e", "g">>
ExtPng == <<".", "p", "n", "g">>
ExtWebp == <<".", "w", "e", "b", "p">>
ExtPdf == <<".", "p", "d", "f">>
ExtEpub == <<".", "e", "p", "u", "b">>

IMAGE_EXTS == {ExtJpg, ExtJpeg, ExtPng, ExtWebp}

VARIABLES
    disk,        \* the source tree: file path -> "ok" | "corrupt" (an image that cannot be decoded)
    outFiles,    \* the output tree: file path -> [complete, pages]
    scratchDirs, \* number of manga_tmp_ directories that exist
    folders,     \* Worker.folders
    export_pdf,  \* Worker.export_pdf
    do_merge,    \* Worker.do_merge
    _stop,       \* Worker._stop
    pc,          \* where Worker.run is
    groups,      \* run's groups, as a sequence of [name, vols] in insertion order
    si,          \* index in groups of the series being processed
    vi,          \* index in vols of the volume being processed
    imgs,        \* the images handed to the encode in flight
    emits,       \* every signal the worker has emitted, in order
    encodes,     \* every encoder call the worker has made, in order
    stopAt,      \* where the worker was when stop() was first called
    faulted,     \* an exception has escaped the loop of run
    probe,       \* the input and result of the function under test
    uiFolders,   \* MainWindow.folders, the list the window shows
    running,     \* the number of worker threads started and not yet ended
    runNo,       \* the number of workers the window has created
    delivered    \* the signals of the worker the window's slots have run
                 \* for, in order: n stands for emits[n]

vars == <<disk, outFiles, scratchDirs, folders, export_pdf, do_merge, _stop, pc,
          groups, si, vi, imgs, emits, encodes, stopAt, faulted, probe,
          uiFolders, running, runNo, delivered>>

\* The state of the window and of the signal connections.
uiVars == <<uiFolders, running, runNo, delivered>>

\* ------------------------------------------------------------------------
\* gather_images
\* ------------------------------------------------------------------------

\* A set as a sequence, in some order (the order rglob yields the files in).
RECURSIVE SetToSeq(_)
SetToSeq(S) ==
    IF S = {} THEN <<>>
    ELSE LET e == CHOOSE e \in S : TRUE IN <<e>> \o SetToSeq(S \ {e})

\* The sort key of gather_images: (str(p.relative_to(folder.parent)).lower(),
\* numeric_sort_key(p.name)).
GatherKey(p, folder) ==
    PyTuple(<<PyStr(Lower(PathStr(RelativeTo(p, Parent(folder))))),
              numeric_sort_key(Name(p))>>)

\* The files of fs under folder with a supported extension, sorted.  A folder
\* that does not exist has no file under it: both give the empty list.
gather_images_in(fs, folder) ==
    LET files == {p \in DOMAIN fs :
                    IsUnder(p, folder) /\ Lower(Suffix(Name(p))) \in IMAGE_EXTS}
        pairs == [i \in 1..Cardinality(files) |->
                    [key |-> GatherKey(SetToSeq(files)[i], folder),
                     item |-> SetToSeq(files)[i]]]
        sorted == SortByKey(pairs)
    IN  [i \in 1..Len(sorted.v) |-> sorted.v[i].item]

gather_images(folder) == gather_images_in(disk, folder)

\* ------------------------------------------------------------------------
\* The encoders
\* ------------------------------------------------------------------------

TmpDir == << <<"m", "a", "n", "g", "a", "_", "t", "m", "p", "_">> >>

\* The file open(out, 'wb') leaves before anything is written to it.
EmptyFile == [complete |-> FALSE, pages |-> <<>>]

\* The loop of images_to_temp_jpegs over image_paths.  tmp_files is the list
\* built so far and tmp the scratch directory: file -> the source image whose
\* pixels it holds.  raised: Image.open failed on an image it cannot decode.
RECURSIVE TempJpegsLoop(_, _, _)
TempJpegsLoop(image_paths, tmp_files, tmp) ==
    IF image_paths = <<>>
    THEN [raised |-> FALSE, tmp_files |-> tmp_files, tmp |-> tmp]
    ELSE LET p == Head(image_paths)
             rest == Tail(image_paths)
         IN  IF p \notin DOMAIN disk THEN TempJpegsLoop(rest, tmp_files, tmp)
             ELSE IF Lower(Suffix(Name(p))) \in {ExtJpg, ExtJpeg, ExtPng}
             THEN TempJpegsLoop(rest, Append(tmp_files, p), tmp)
             ELSE IF disk[p] = "corrupt"
             THEN [raised |-> TRUE, tmp_files |-> tmp_files, tmp |-> tmp]
             ELSE LET out == TmpDir \o <<Stem(Name(p)) \o ExtJpg>>
                  IN  TempJpegsLoop(rest, Append(tmp_files, out), (out :> p) @@ tmp)

\* images_to_temp_jpegs: [raised, tmp_dir_exists, tmp_files, tmp].  The
\* scratch directory is made first and removed when the loop raises.
images_to_temp_jpegs(image_paths) ==
    LET r == TempJpegsLoop(image_paths, <<>>, <<>>)
    IN  [raised |-> r.raised, tmp_dir_exists |-> ~r.raised,
         tmp_files |-> r.tmp_files, tmp |-> r.tmp]

\* The image a file handed to img2pdf holds: a scratch file holds what was
\* last saved to it, any other file is a source image.
PageSource(f, tmp) == IF f \in DOMAIN tmp THEN tmp[f] ELSE f

\* img2pdf.convert raises on an empty list and on an image it cannot read.
Img2PdfRaises(tmp_files, tmp) ==
    \/ tmp_files = <<>>
    \/ \E i \in 1..Len(tmp_files) :
          tmp_files[i] \notin DOMAIN tmp /\ disk[tmp_files[i]] = "corrupt"

\* convert_images_to_pdf on the output tree outs:
\* [ok, err, outs, scratch], scratch the number of scratch directories the
\* call leaves behind.
convert_images_to_pdf(image_paths, out_pdf_path, outs) ==
    LET r == images_to_temp_jpegs(image_paths)
    IN  IF r.raised
        THEN \* tmp_dir is still None: the finally block removes nothing
             [ok |-> FALSE, err |-> "traceback", outs |-> outs,
              scratch |-> IF r.tmp_dir_exists THEN 1 ELSE 0]
        ELSE LET opened == (out_pdf_path :> EmptyFile) @@ outs
             IN  IF Img2PdfRaises(r.tmp_files, r.tmp)
                 THEN [ok |-> FALSE, err |-> "traceback", outs |-> opened,
                       scratch |-> 0]
                 ELSE [ok |-> TRUE, err |-> "None",
                       outs |-> (out_pdf_path :>
                                   [complete |-> TRUE,
                                    pages |-> [i \in 1..Len(r.tmp_files) |->
                                                 PageSource(r.tmp_files[i], r.tmp)]])
                                @@ outs,
                       scratch |-> 0]

\* paths.sort(key=lambda p: numeric_sort_key(p.name)) of convert_folder_to_epub.
EpubSort(paths) ==
    LET r == SortByKey([i \in 1..Len(paths) |->
                          [key |-> numeric_sort_key(Name(paths[i])), item |-> paths[i]]])
    IN  [ok |-> r.ok, v |-> [i \in 1..Len(r.v) |-> r.v[i].item]]

\* convert_folder_to_epub: [ok, err, outs, scratch].  Every exception is
\* caught and returned; the book is written once every page was re-encoded.
convert_folder_to_epub(image_paths, out_epub_path, outs) ==
    LET paths == SelectSeq(image_paths, LAMBDA p : p \in DOMAIN disk)
        sorted == EpubSort(paths)
    IN  IF paths = <<>>
        THEN [ok |-> FALSE, err |-> "no images", outs |-> outs, scratch |-> 0]
        ELSE IF ~sorted.ok
        THEN [ok |-> FALSE, err |-> "traceback", outs |-> outs, scratch |-> 0]
        ELSE IF \E i \in 1..Len(paths) : disk[paths[i]] = "corrupt"
        THEN [ok |-> FALSE, err |-> "traceback", outs |-> outs, scratch |-> 0]
        ELSE [ok |-> TRUE, err |-> "None",
              outs |-> (out_epub_path :> [complete |-> TRUE, pages |-> sorted.v])
                       @@ outs,
              scratch |-> 0]

\* ------------------------------------------------------------------------
\* Worker
\* ------------------------------------------------------------------------

\* The wrapper names, were the last of the four left out.
ContainerLabelsThree ==
    { <<"U5355", "U884C", "U672C">>, <<"U55AE", "U884C", "U672C">>,
      <<"U9ED8", "U8A8D">> }

\* The names of the wrapper folders run looks through, in code points:
\* U+5355 U+884C U+672C, U+55AE U+884C U+672C, U+9ED8 U+8A8D,
\* U+5176 U+4ED6 U+6C49 U+5316 U+7248.
ContainerLabels ==
    { <<"U5355", "U884C", "U672C">>, <<"U55AE", "U884C", "U672C">>,
      <<"U9ED8", "U8A8D">>, <<"U5176", "U4ED6", "U6C49", "U5316", "U7248">> }

\* The series name run gives a volume folder.
manga_name_of(f) ==
    LET parent == Parent(f)
    IN  IF Lower(Name(parent)) \in ContainerLabels
        THEN Name(Parent(parent))
        ELSE Name(parent)

\* The grouping, were a folder put at the front of its series' list.
RECURSIVE GroupLoopPrepend(_, _)
GroupLoopPrepend(fs, gs) ==
    IF fs = <<>> THEN gs
    ELSE LET f == Head(fs)
             n == manga_name_of(f)
             at == {k \in 1..Len(gs) : gs[k].name = n}
         IN  IF at = {}
             THEN GroupLoopPrepend(Tail(fs), Append(gs, [name |-> n, vols |-> <<f>>]))
             ELSE GroupLoopPrepend(Tail(fs),
                            [k \in 1..Len(gs) |->
                               IF k \in at
                               THEN [name |-> n, vols |-> <<f>> \o gs[k].vols]
                               ELSE gs[k]])

\* groups.setdefault(manga_name, []).append(f) for every folder: a dict keeps
\* its keys in insertion order.
RECURSIVE GroupLoop(_, _)
GroupLoop(fs, gs) ==
    IF fs = <<>> THEN gs
    ELSE LET f == Head(fs)
             n == manga_name_of(f)
             at == {k \in 1..Len(gs) : gs[k].name = n}
         IN  IF at = {}
             THEN GroupLoop(Tail(fs), Append(gs, [name |-> n, vols |-> <<f>>]))
             ELSE GroupLoop(Tail(fs),
                            [k \in 1..Len(gs) |->
                               IF k \in at
                               THEN [name |-> n, vols |-> Append(gs[k].vols, f)]
                               ELSE gs[k]])

Groups(fs) == GroupLoop(fs, <<>>)

\* re.sub(r'^\d+\s*', '', name): a leading digit run and the spaces after it.
RECURSIVE DropWhile(_, _)
DropWhile(s, digits) ==
    IF s = <<>> THEN s
    ELSE IF digits /\ IsDigit(Head(s)) THEN DropWhile(Tail(s), TRUE)
    ELSE IF Head(s) = " " THEN DropWhile(Tail(s), FALSE)
    ELSE s

StripOrdinal(name) ==
    IF name # <<>> /\ IsDigit(Head(name)) THEN DropWhile(name, TRUE) ELSE name

OutDir == << <<"o", "u", "t">> >>

Ext == IF export_pdf THEN ExtPdf ELSE ExtEpub

manga_out(manga_name) == OutDir \o <<safe_filename(manga_name)>>

\* out_path of a volume and merged_name of a series.
VolOutPath(manga_name, vol) ==
    manga_out(manga_name) \o <<StripOrdinal(Name(vol)) \o Ext>>

MergedName(manga_name) == manga_out(manga_name) \o << <<"U603B", "U96C6">> \o Ext >>

\* all_imgs of the merge: the images of every volume, in group order.
RECURSIVE AllImgs(_)
AllImgs(vols) ==
    IF vols = <<>> THEN <<>>
    ELSE gather_images(Head(vols)) \o AllImgs(Tail(vols))

\* The encoder the export format selects.
Encode(image_paths, out, outs) ==
    IF export_pdf
    THEN convert_images_to_pdf(image_paths, out, outs)
    ELSE convert_folder_to_epub(image_paths, out, outs)

Ev(e, a) == [ev |-> e, arg |-> a]

\* A failure message: the output path and the encoder's err.
EvErr(e, a, err) == [ev |-> e, arg |-> a, err |-> err]

Finished == Ev("finished", <<>>)

CurName == groups[si].name
CurVols == groups[si].vols
CurVol == groups[si].vols[vi]

inputVars == <<disk, folders, export_pdf, do_merge, probe>>

\* The checkpoint as it would be were the flag read once per series, before
\* the first volume only.
StopCheckSeriesHead == _stop /\ vi = 1

\* The cancellation checkpoint: "if self._stop" at the head of the loop over
\* the volumes.
StopCheck == _stop

\* MainWindow.on_start_stop on a running worker: Worker.stop.
stop ==
    /\ pc \notin {"done", "idle"}
    /\ _stop' = TRUE
    /\ stopAt' = IF stopAt.pc = "none"
                 THEN [pc |-> pc, si |-> si, vi |-> vi, n |-> Len(encodes)]
                 ELSE stopAt
    /\ UNCHANGED <<inputVars, uiVars, outFiles, scratchDirs, pc, groups, si, vi, imgs,
                   emits, encodes, faulted>>

\* run, no folder: the message, finished, and return (through finally).
RunEmpty ==
    /\ pc = "start"
    /\ folders = <<>>
    /\ emits' = emits \o <<Ev("noVolumes", <<>>), Finished>>
    /\ pc' = "finally"
    /\ UNCHANGED <<inputVars, uiVars, outFiles, scratchDirs, _stop, groups, si, vi, imgs,
                   encodes, stopAt, faulted>>

\* run, the grouping of the folders.
RunGroup ==
    /\ pc = "start"
    /\ folders # <<>>
    /\ groups' = Groups(folders)
    /\ si' = 1
    /\ pc' = "series"
    /\ UNCHANGED <<inputVars, uiVars, outFiles, scratchDirs, _stop, vi, imgs, emits,
                   encodes, stopAt, faulted>>

\* The head of the loop over the series: mkdir and the series' first message.
SeriesStart ==
    /\ pc = "series"
    /\ si <= Len(groups)
    /\ emits' = Append(emits, Ev("series", CurName))
    /\ vi' = 1
    /\ pc' = "vol"
    /\ UNCHANGED <<inputVars, uiVars, outFiles, scratchDirs, _stop, groups, si, imgs,
                   encodes, stopAt, faulted>>

\* mkdir raises (the output directory cannot be made): the except clause of run.
SeriesMkdirRaises ==
    /\ pc = "series"
    /\ si <= Len(groups)
    /\ emits' = Append(emits, Ev("threadException", <<>>))
    /\ faulted' = TRUE
    /\ pc' = "finally"
    /\ UNCHANGED <<inputVars, uiVars, outFiles, scratchDirs, _stop, groups, si, vi, imgs,
                   encodes, stopAt>>

\* After the last series.
AllDone ==
    /\ pc = "series"
    /\ si > Len(groups)
    /\ emits' = Append(emits, Ev("allDone", <<>>))
    /\ pc' = "finally"
    /\ UNCHANGED <<inputVars, uiVars, outFiles, scratchDirs, _stop, groups, si, vi, imgs,
                   encodes, stopAt, faulted>>

\* The head of the loop over the volumes, the stop flag set.
VolCancelled ==
    /\ pc = "vol"
    /\ vi <= Len(CurVols)
    /\ StopCheck
    /\ emits' = emits \o <<Ev("cancelled", <<>>), Finished>>
    /\ pc' = "finally"
    /\ UNCHANGED <<inputVars, uiVars, outFiles, scratchDirs, _stop, groups, si, vi, imgs,
                   encodes, stopAt, faulted>>

\* A volume without images, were the loop left (break) instead of continued.
VolNoImagesBreak ==
    /\ pc = "vol"
    /\ vi <= Len(groups[si].vols)
    /\ ~_stop
    /\ gather_images(groups[si].vols[vi]) = <<>>
    /\ emits' = emits \o <<Ev("processing", StripOrdinal(Name(groups[si].vols[vi]))),
                           Ev("noImages", groups[si].vols[vi])>>
    /\ vi' = Len(groups[si].vols) + 1
    /\ UNCHANGED <<inputVars, uiVars, outFiles, scratchDirs, _stop, pc, groups, si, imgs,
                   encodes, stopAt, faulted>>

\* A volume without images: the warning, and on to the next volume.
VolNoImages ==
    /\ pc = "vol"
    /\ vi <= Len(CurVols)
    /\ ~StopCheck
    /\ gather_images(CurVol) = <<>>
    /\ emits' = emits \o <<Ev("processing", StripOrdinal(Name(CurVol))),
                           Ev("noImages", CurVol)>>
    /\ vi' = vi + 1
    /\ UNCHANGED <<inputVars, uiVars, outFiles, scratchDirs, _stop, pc, groups, si, imgs,
                   encodes, stopAt, faulted>>

\* A volume with images: the encoder is called.
VolEncodeStart ==
    /\ pc = "vol"
    /\ vi <= Len(CurVols)
    /\ ~StopCheck
    /\ gather_images(CurVol) # <<>>
    /\ emits' = Append(emits, Ev("processing", StripOrdinal(Name(CurVol))))
    /\ imgs' = gather_images(CurVol)
    /\ encodes' = Append(encodes, [kind |-> "vol", si |-> si, vi |-> vi,
                                   out |-> VolOutPath(CurName, CurVol),
                                   imgs |-> gather_images(CurVol)])
    /\ pc' = "encode"
    /\ UNCHANGED <<inputVars, uiVars, outFiles, scratchDirs, _stop, groups, si, vi,
                   stopAt, faulted>>

\* The encoder returns, were a failure to end the loop instead of being
\* reported and passed over.
VolEncodeReturnAbort ==
    /\ pc = "encode"
    /\ LET out == VolOutPath(groups[si].name, groups[si].vols[vi])
           r == Encode(imgs, out, outFiles)
       IN  /\ outFiles' = r.outs
           /\ scratchDirs' = scratchDirs + r.scratch
           /\ emits' = Append(emits,
                              IF r.ok /\ out \in DOMAIN r.outs
                              THEN Ev("ok", out)
                              ELSE EvErr("fail", out, r.err))
           /\ pc' = IF r.ok THEN "vol" ELSE "finally"
    /\ vi' = vi + 1
    /\ imgs' = <<>>
    /\ UNCHANGED <<inputVars, uiVars, _stop, groups, si, encodes, stopAt, faulted>>

\* The encoder returns: the success or failure message, and the next volume.
VolEncodeReturn ==
    /\ pc = "encode"
    /\ LET out == VolOutPath(CurName, CurVol)
           r == Encode(imgs, out, outFiles)
       IN  /\ outFiles' = r.outs
           /\ scratchDirs' = scratchDirs + r.scratch
           /\ emits' = Append(emits,
                              IF r.ok /\ out \in DOMAIN r.outs
                              THEN Ev("ok", out)
                              ELSE EvErr("fail", out, r.err))
    /\ vi' = vi + 1
    /\ imgs' = <<>>
    /\ pc' = "vol"
    /\ UNCHANGED <<inputVars, uiVars, _stop, groups, si, encodes, stopAt, faulted>>

\* After the last volume of a series, no merge asked: the next series.
MergeSkip ==
    /\ pc = "vol"
    /\ vi > Len(CurVols)
    /\ ~do_merge
    /\ si' = si + 1
    /\ pc' = "series"
    /\ UNCHANGED <<inputVars, uiVars, outFiles, scratchDirs, _stop, groups, vi, imgs,
                   emits, encodes, stopAt, faulted>>

\* The merge of a series without any image, were the loop over the series
\* left (break) instead of continued.
MergeNoImagesBreak ==
    /\ pc = "vol"
    /\ vi > Len(groups[si].vols)
    /\ do_merge
    /\ AllImgs(groups[si].vols) = <<>>
    /\ emits' = emits \o <<Ev("mergeStart", groups[si].name), Ev("mergeNoImages", <<>>)>>
    /\ si' = Len(groups) + 1
    /\ pc' = "series"
    /\ UNCHANGED <<inputVars, uiVars, outFiles, scratchDirs, _stop, groups, vi, imgs,
                   encodes, stopAt, faulted>>

\* The merge of a series without any image: the warning, and the next series.
MergeNoImages ==
    /\ pc = "vol"
    /\ vi > Len(CurVols)
    /\ do_merge
    /\ AllImgs(CurVols) = <<>>
    /\ emits' = emits \o <<Ev("mergeStart", CurName), Ev("mergeNoImages", <<>>)>>
    /\ si' = si + 1
    /\ pc' = "series"
    /\ UNCHANGED <<inputVars, uiVars, outFiles, scratchDirs, _stop, groups, vi, imgs,
                   encodes, stopAt, faulted>>

\* The merge of a series: the encoder is called on the images of all volumes.
MergeEncodeStart ==
    /\ pc = "vol"
    /\ vi > Len(CurVols)
    /\ do_merge
    /\ AllImgs(CurVols) # <<>>
    /\ emits' = Append(emits, Ev("mergeStart", CurName))
    /\ imgs' = AllImgs(CurVols)
    /\ encodes' = Append(encodes, [kind |-> "merge", si |-> si, vi |-> 0,
                                   out |-> MergedName(CurName),
                                   imgs |-> AllImgs(CurVols)])
    /\ pc' = "mergeEncode"
    /\ UNCHANGED <<inputVars, uiVars, outFiles, scratchDirs, _stop, groups, si, vi,
                   stopAt, faulted>>

\* The merge encoder returns, were a failure passed over without a message.
MergeEncodeReturnSilent ==
    /\ pc = "mergeEncode"
    /\ LET out == MergedName(groups[si].name)
           r == Encode(imgs, out, outFiles)
       IN  /\ outFiles' = r.outs
           /\ scratchDirs' = scratchDirs + r.scratch
           /\ emits' = IF r.ok /\ out \in DOMAIN r.outs
                       THEN Append(emits, Ev("mergeOk", out))
                       ELSE emits
    /\ si' = si + 1
    /\ imgs' = <<>>
    /\ pc' = "series"
    /\ UNCHANGED <<inputVars, uiVars, _stop, groups, vi, encodes, stopAt, faulted>>

\* The merge encoder returns: the success or failure message, and the next
\* series.
MergeEncodeReturn ==
    /\ pc = "mergeEncode"
    /\ LET out == MergedName(CurName)
           r == Encode(imgs, out, outFiles)
       IN  /\ outFiles' = r.outs
           /\ scratchDirs' = scratchDirs + r.scratch
           /\ emits' = Append(emits,
                              IF r.ok /\ out \in DOMAIN r.outs
                              THEN Ev("mergeOk", out)
                              ELSE EvErr("mergeFail", out, r.err))
    /\ si' = si + 1
    /\ imgs' = <<>>
    /\ pc' = "series"
    /\ UNCHANGED <<inputVars, uiVars, _stop, groups, vi, encodes, stopAt, faulted>>

\* The finally clause of run.
Finally ==
    /\ pc = "finally"
    /\ emits' = Append(emits, Finished)
    /\ pc' = "done"
    /\ UNCHANGED <<inputVars, uiVars, outFiles, scratchDirs, _stop, groups, si, vi, imgs,
                   encodes, stopAt, faulted>>

\* ------------------------------------------------------------------------
\* The runs checked
\* ------------------------------------------------------------------------

\* The most folders a run is given.
MaxFolders == 3

SeriesA == <<"S", "A">>
SeriesB == <<"S", "B">>
Library == <<"l", "i", "b">>

\* Two volumes of SeriesA under a wrapper folder, two of SeriesB without.
VolA1 == <<Library, SeriesA, <<"U5355", "U884C", "U672C">>, <<"0", "1", " ", "V", "1">> >>
VolA2 == <<Library, SeriesA, <<"U5355", "U884C", "U672C">>, <<"0", "2", " ", "V", "2">> >>
VolB1 == <<Library, SeriesB, <<"v", "1">> >>
VolB2 == <<Library, SeriesB, <<"v", "2">> >>

Volumes == {VolA1, VolA2, VolB1, VolB2}

\* The images of the volumes.  VolB1 keeps its pages in two sub-folders,
\* VolB2 holds no image, only a text file.
FileA1p1 == VolA1 \o << <<"1", ".", "j", "p", "g">> >>
FileA1p2 == VolA1 \o << <<"2", ".", "j", "p", "g">> >>
FileA2p1 == VolA2 \o << <<"1", ".", "p", "n", "g">> >>
FileA2p2 == VolA2 \o << <<"1", "0", ".", "j", "p", "g">> >>
FileB1p1 == VolB1 \o << <<"c", "1">>, <<"1", ".", "w", "e", "b", "p">> >>
FileB1p2 == VolB1 \o << <<"c", "2">>, <<"1", ".", "w", "e", "b", "p">> >>
FileB2txt == VolB2 \o << <<"n", ".", "t", "x", "t">> >>

LibraryFiles == {FileA1p1, FileA1p2, FileA2p1, FileA2p2, FileB1p1, FileB1p2, FileB2txt}

\* The images that may be undecodable in a run.
MaybeCorrupt == {FileA1p2, FileB1p2}

\* The lists of distinct folders the window can hand to a worker.
DistinctSeqs(S, n) ==
    {q \in UNION {[1..k -> S] : k \in 0..n} :
       \A a, b \in 1..Len(q) : a # b => q[a] # q[b]}

NoStop == [pc |-> "none", si |-> 0, vi |-> 0, n |-> 0]

NoProbe == [op |-> "none"]

\* A worker constructed and started.
Init ==
    /\ \E bad \in SUBSET MaybeCorrupt :
          disk = [f \in LibraryFiles |-> IF f \in bad THEN "corrupt" ELSE "ok"]
    /\ folders \in DistinctSeqs(Volumes, MaxFolders)
    /\ export_pdf \in BOOLEAN
    /\ do_merge \in BOOLEAN
    /\ outFiles = <<>>
    /\ scratchDirs = 0
    /\ _stop = FALSE
    /\ pc = "start"
    /\ groups = <<>>
    /\ si = 0
    /\ vi = 0
    /\ imgs = <<>>
    /\ emits = <<>>
    /\ encodes = <<>>
    /\ stopAt = NoStop
    /\ faulted = FALSE
    /\ probe = NoProbe
    /\ uiFolders = folders
    /\ running = 1
    /\ runNo = 1
    /\ delivered = <<>>

Next ==
    \/ stop
    \/ RunEmpty
    \/ RunGroup
    \/ SeriesStart
    \/ SeriesMkdirRaises
    \/ AllDone
    \/ VolCancelled
    \/ VolNoImages
    \/ VolEncodeStart
    \/ VolEncodeReturn
    \/ MergeSkip
    \/ MergeNoImages
    \/ MergeEncodeStart
    \/ MergeEncodeReturn
    \/ Finally

Spec == Init /\ [][Next]_vars

\* ------------------------------------------------------------------------
\* Properties of Worker.run
\* ------------------------------------------------------------------------

EvAt(e) == {i \in 1..Len(emits) : emits[i].ev = e}

CountEv(e) == Cardinality(EvAt(e))

HasEv(e) == EvAt(e) # {}

\* C1: every run of Worker.run emits the terminal finished signal exactly
\* once: never twice at any point, and once when run has returned.  Stated of
\* the runs the window starts, on at least one folder.
C1_FinishedExactlyOnce ==
    folders # <<>> =>
        /\ CountEv("finished") <= 1
        /\ pc = "done" => CountEv("finished") = 1

\* stop() was called between two volumes of one series: volume vi - 1 of the
\* series has completed and volume vi has not started.
StoppedBetweenVolumes ==
    /\ stopAt.pc = "vol"
    /\ stopAt.vi > 1
    /\ stopAt.vi <= Len(groups[stopAt.si].vols)

\* C2: when the stop flag is set after volume k of a series has completed and
\* before volume k + 1 of that series starts, no encoder call is made from
\* then on (no later volume, no merge, no later series), the all-done event is
\* never emitted, the cancelled event is, once run has returned, and every
\* finished event comes after it.
C2_StopBetweenVolumes ==
    StoppedBetweenVolumes =>
        /\ Len(encodes) = stopAt.n
        /\ ~HasEv("allDone")
        /\ pc = "done" => HasEv("cancelled")
        /\ \A j \in EvAt("finished") : \E i \in EvAt("cancelled") : i < j

C2_Witness ==
    /\ StoppedBetweenVolumes
    /\ pc = "done"
    /\ HasEv("ok")
    /\ Len(groups) > 1

\* C3: when stop() is called while an encode is in flight (of a volume or of
\* a merge), no further encode starts after that one returns, and the run ends
\* with the cancelled event and without the all-done event.
C3_StopDuringEncode ==
    (stopAt.pc \in {"encode", "mergeEncode"} /\ ~faulted) =>
        /\ Len(encodes) = stopAt.n
        /\ ~HasEv("allDone")
        /\ pc = "done" => HasEv("cancelled")

\* The units of work of a run, in order: for each series its volumes, then
\* its merge when one is asked for.
RECURSIVE UnitsOf(_)
UnitsOf(gs) ==
    IF gs = <<>> THEN <<>>
    ELSE [k \in 1..Len(gs[1].vols) |-> Ev("processing", StripOrdinal(Name(gs[1].vols[k])))]
         \o (IF do_merge THEN <<Ev("mergeStart", gs[1].name)>> ELSE <<>>)
         \o UnitsOf(Tail(gs))

\* The units of work the run has attempted, in order.
Attempted == SelectSeq(emits, LAMBDA e : e.ev \in {"processing", "mergeStart"})

\* C4: in a run whose stop flag is never set and whose loop no exception
\* escapes, whatever the encoder reports for a volume or a merge, every unit of
\* work (every volume of every series, every merge asked for) is attempted, in
\* order, and the run ends with the all-done event.
C4_FailureIsolation ==
    (pc = "done" /\ folders # <<>> /\ ~_stop /\ ~faulted) =>
        /\ Attempted = UnitsOf(Groups(folders))
        /\ HasEv("allDone")

C4_Witness ==
    /\ pc = "done"
    /\ ~_stop
    /\ ~faulted
    /\ \E i \in EvAt("fail") : \E j \in EvAt("ok") : i < j
    /\ \E i \in EvAt("mergeFail") : \E j \in EvAt("processing") : i < j

\* C5: after convert_images_to_pdf has returned failure, no file exists at its
\* output path, and whether it failed or not no scratch directory is left.
C5_NoPartialPdf ==
    export_pdf =>
        /\ \A i \in EvAt("fail") \cup EvAt("mergeFail") :
              emits[i].arg \notin DOMAIN outFiles
        /\ pc \notin {"encode", "mergeEncode"} => scratchDirs = 0

\* The page order of the artifact the selected encoder makes of one volume
\* alone (no page when it fails).
VolPageOrder(vol) ==
    LET out == VolOutPath(manga_name_of(vol), vol)
        r == Encode(gather_images(vol), out, <<>>)
    IN  IF r.ok THEN r.outs[out].pages ELSE <<>>

RECURSIVE ConcatPages(_)
ConcatPages(vols) ==
    IF vols = <<>> THEN <<>>
    ELSE VolPageOrder(Head(vols)) \o ConcatPages(Tail(vols))

\* C7: the pages of a merged artifact are the pages of the series' volumes,
\* volume after volume in group order, in the PDF and in the EPUB format.
C7_MergeIsConcatenation ==
    \A k \in 1..Len(encodes) :
        (encodes[k].kind = "merge"
           /\ encodes[k].out \in DOMAIN outFiles
           /\ outFiles[encodes[k].out].complete)
        => outFiles[encodes[k].out].pages = ConcatPages(groups[encodes[k].si].vols)

\* C8: a PDF written from N existing images has N pages, the k-th built from
\* the k-th image.
C8_PdfPagesAreInputs ==
    export_pdf =>
        \A k \in 1..Len(encodes) :
            (encodes[k].out \in DOMAIN outFiles /\ outFiles[encodes[k].out].complete)
            => /\ Len(outFiles[encodes[k].out].pages) = Len(encodes[k].imgs)
               /\ \A n \in 1..Len(encodes[k].imgs) :
                     outFiles[encodes[k].out].pages[n] = encodes[k].imgs[n]

Folders == {folders[k] : k \in 1..Len(folders)}

WarningsFor(vol) == {i \in EvAt("noImages") : emits[i].arg = vol}

EncodesFor(vol) ==
    {k \in 1..Len(encodes) :
        encodes[k].kind = "vol" /\ groups[encodes[k].si].vols[encodes[k].vi] = vol}

\* C10: a volume without a supported image gets one warning naming it, no
\* encoder call and no output file; and when the stop flag is never set and no
\* exception escapes the loop, every volume of the run, those after it
\* included, is processed: one warning for a volume without images, one
\* encoder call on its images for every other.
C10_ZeroImageVolume ==
    /\ \A i \in EvAt("noImages") :
          /\ emits[i].arg \in Folders
          /\ gather_images(emits[i].arg) = <<>>
          /\ emits[i - 1] = Ev("processing", StripOrdinal(Name(emits[i].arg)))
    /\ \A vol \in Folders :
          gather_images(vol) = <<>> =>
             /\ Cardinality(WarningsFor(vol)) <= 1
             /\ EncodesFor(vol) = {}
             /\ VolOutPath(manga_name_of(vol), vol) \notin DOMAIN outFiles
    /\ (pc = "done" /\ ~_stop /\ ~faulted) =>
          /\ CountEv("processing") = Len(folders)
          /\ \A vol \in Folders :
                IF gather_images(vol) = <<>>
                THEN Cardinality(WarningsFor(vol)) = 1
                ELSE /\ WarningsFor(vol) = {}
                     /\ Cardinality(EncodesFor(vol)) = 1
                     /\ \A k \in EncodesFor(vol) : encodes[k].imgs = gather_images(vol)

C10_Witness ==
    /\ pc = "done"
    /\ \E i \in EvAt("noImages") : \E j \in EvAt("ok") : i < j

\* The series of the run without any image.
EmptySeries == {k \in 1..Len(groups) : AllImgs(groups[k].vols) = <<>>}

MergeEncodesFor(k) ==
    {n \in 1..Len(encodes) : encodes[n].kind = "merge" /\ encodes[n].si = k}

\* C11: with merge asked for, a series whose volumes all yield no image gets
\* the merge warning (after its merge-start event), no encoder call for the
\* merge and no merged file; and when the stop flag is never set and no
\* exception escapes the loop, there is one such warning per such series,
\* every series of the run is started, and the run ends with all-done.
C11_EmptyMergeSet ==
    /\ \A i \in EvAt("mergeNoImages") :
          /\ emits[i - 1].ev = "mergeStart"
          /\ \E k \in EmptySeries : groups[k].name = emits[i - 1].arg
    /\ \A k \in EmptySeries :
          /\ MergeEncodesFor(k) = {}
          /\ MergedName(groups[k].name) \notin DOMAIN outFiles
    /\ (pc = "done" /\ do_merge /\ folders # <<>> /\ ~_stop /\ ~faulted) =>
          /\ CountEv("mergeNoImages") = Cardinality(EmptySeries)
          /\ CountEv("series") = Len(groups)
          /\ \A k \in 1..Len(groups) \ EmptySeries : Cardinality(MergeEncodesFor(k)) = 1
          /\ HasEv("allDone")

C11_Witness ==
    /\ pc = "done"
    /\ HasEv("allDone")
    /\ \E i \in EvAt("mergeNoImages") : \E j \in EvAt("mergeOk") : i < j

\* The place of a folder in the list the run was given.
FolderIndex(f) == CHOOSE k \in 1..Len(folders) : folders[k] = f

\* The series the run has started, in order.
SeriesStarted == SelectSeq(emits, LAMBDA e : e.ev = "series")

\* C16: the grouping is an order-preserving partition of the folder list:
\* every folder is in exactly one group, the group of its series name; within
\* a group the folders keep the order of the list; no group is empty; the
\* groups are in the order their series were first seen in the list; and the
\* series are started in that order.
C16_GroupingIsOrderedPartition ==
    (folders # <<>> /\ pc \notin {"start", "idle"}) =>
        /\ \A f \in Folders :
              \E k \in 1..Len(groups) :
                  /\ \E j \in 1..Len(groups[k].vols) :
                        /\ groups[k].vols[j] = f
                        /\ \A j2 \in 1..Len(groups[k].vols) :
                              groups[k].vols[j2] = f => j2 = j
                  /\ groups[k].name = manga_name_of(f)
                  /\ \A k2 \in 1..Len(groups) :
                        (\E j \in 1..Len(groups[k2].vols) : groups[k2].vols[j] = f) => k2 = k
        /\ \A k \in 1..Len(groups) :
              /\ groups[k].vols # <<>>
              /\ \A j \in 1..Len(groups[k].vols) : groups[k].vols[j] \in Folders
              /\ \A i, j \in 1..Len(groups[k].vols) :
                    i < j => FolderIndex(groups[k].vols[i]) < FolderIndex(groups[k].vols[j])
        /\ \A k, k2 \in 1..Len(groups) :
              k < k2 => /\ groups[k].name # groups[k2].name
                        /\ FolderIndex(groups[k].vols[1]) < FolderIndex(groups[k2].vols[1])
        /\ Len(SeriesStarted) <= Len(groups)
        /\ \A k \in 1..Len(SeriesStarted) : SeriesStarted[k].arg = groups[k].name

\* A finished run on a list where the two series alternate.
C16_Witness ==
    /\ pc = "done"
    /\ Len(folders) = 3
    /\ manga_name_of(folders[1]) = manga_name_of(folders[3])
    /\ manga_name_of(folders[1]) # manga_name_of(folders[2])
    /\ Len(SeriesStarted) = 2

\* The outcome messages of the encode attempts, in order.
Outcomes == SelectSeq(emits, LAMBDA e : e.ev \in {"ok", "fail", "mergeOk", "mergeFail"})

\* C15: every encode attempt, of a volume or of a merge, has exactly one
\* outcome message, which names the attempt's output path: the k-th outcome
\* message is of the k-th attempt (only the attempt under way has none yet);
\* it is a success message exactly when the encoder returned success and the
\* output file exists, and otherwise a failure message carrying the output
\* path and the encoder's diagnostic; it follows the attempt's own start
\* message at once.
C15_OneOutcomePerAttempt ==
    /\ Len(Outcomes) = Len(encodes) - (IF pc \in {"encode", "mergeEncode"} THEN 1 ELSE 0)
    /\ \A k \in 1..Len(Outcomes) :
          LET o == Outcomes[k]
              a == encodes[k]
              r == Encode(a.imgs, a.out, <<>>)
          IN  /\ o.arg = a.out
              /\ o.ev \in (IF a.kind = "vol" THEN {"ok", "fail"} ELSE {"mergeOk", "mergeFail"})
              /\ o.ev \in {"ok", "mergeOk"} <=> (r.ok /\ a.out \in DOMAIN outFiles)
              /\ o.ev \in {"fail", "mergeFail"} =>
                    /\ DOMAIN o = {"ev", "arg", "err"}
                    /\ o.err = r.err
                    /\ o.err # "None"
    /\ \A i \in 1..Len(emits) :
          /\ emits[i].ev \in {"ok", "fail"} => emits[i - 1].ev = "processing"
          /\ emits[i].ev \in {"mergeOk", "mergeFail"} => emits[i - 1].ev = "mergeStart"

\* A finished run with a failed volume, a converted volume and a failed merge.
C15_Witness ==
    /\ pc = "done"
    /\ \E i \in EvAt("fail") : emits[i].err = "traceback"
    /\ HasEv("ok")
    /\ \E i \in EvAt("mergeFail") : emits[i].arg = encodes[Len(encodes)].out

\* ------------------------------------------------------------------------
\* The ordering functions on their own
\* ------------------------------------------------------------------------

\* The most files in the directory handed to gather_images.
MaxDirFiles == 4

NameB == <<"b", ".", "p", "n", "g">>
NameA == <<"a", ".", "j", "p", "g">>
Name10 == <<"1", "0", ".", "w", "e", "b", "p">>
Name2 == <<"2", ".", "j", "p", "g">>
Name1 == <<"1", ".", "j", "p", "g">>
Name1x2 == <<"1", "_", "2", ".", "j", "p", "g">>

NameCh2 == <<"c", "h", "2", ".", "j", "p", "g">>
NameCh10 == <<"c", "h", "1", "0", ".", "j", "p", "g">>
NameCh10a == <<"c", "h", "1", "0", "a", ".", "j", "p", "g">>
NameMillion == <<"1", "0", "0", "0", "0", "0", "0", ".", "j", "p", "g">>

NamePool == {NameB, NameA, Name10, Name2, Name1, Name1x2,
             NameCh2, NameCh10, NameCh10a, NameMillion}

\* A flat volume directory.
ProbeVol == <<Library, <<"v", "o", "l">> >>

ProbeNames == {Name(f) : f \in DOMAIN disk}

\* No worker; a flat directory holding some of the names.
InitSort ==
    /\ \E names \in SUBSET NamePool :
          /\ Cardinality(names) <= MaxDirFiles
          /\ disk = [f \in {ProbeVol \o <<n>> : n \in names} |-> "ok"]
    /\ folders = <<>>
    /\ export_pdf = FALSE
    /\ do_merge = FALSE
    /\ outFiles = <<>>
    /\ scratchDirs = 0
    /\ _stop = FALSE
    /\ pc = "idle"
    /\ groups = <<>>
    /\ si = 0
    /\ vi = 0
    /\ imgs = <<>>
    /\ emits = <<>>
    /\ encodes = <<>>
    /\ stopAt = NoStop
    /\ faulted = FALSE
    /\ probe = NoProbe
    /\ uiFolders = <<>>
    /\ running = 0
    /\ runNo = 0
    /\ delivered = <<>>

workerVars == <<disk, outFiles, scratchDirs, folders, export_pdf, do_merge, _stop,
                pc, groups, si, vi, imgs, emits, encodes, stopAt, faulted>>

\* gather_images on the directory.
ProbeGather ==
    /\ pc = "idle"
    /\ probe' = [op |-> "gather", result |-> gather_images(ProbeVol)]
    /\ UNCHANGED <<workerVars, uiVars>>

\* The keys of two names of the directory, compared.
ProbeCompare ==
    /\ pc = "idle"
    /\ \E a, b \in ProbeNames :
          probe' = [op |-> "cmp", a |-> a, b |-> b,
                    result |-> PyCmp(numeric_sort_key(a), numeric_sort_key(b))]
    /\ UNCHANGED <<workerVars, uiVars>>

\* The sort of convert_folder_to_epub on the images of the directory.
ProbeEpubSort ==
    /\ pc = "idle"
    /\ probe' = [op |-> "epub", input |-> gather_images(ProbeVol),
                 result |-> EpubSort(gather_images(ProbeVol))]
    /\ UNCHANGED <<workerVars, uiVars>>

NextSort ==
    \/ ProbeGather
    \/ ProbeCompare
    \/ ProbeEpubSort

SpecSort == InitSort /\ [][NextSort]_vars

KeyCmp(a, b) == PyCmp(numeric_sort_key(a), numeric_sort_key(b))

\* C6: gather_images on a flat directory returns the files ordered by the
\* numeric key of their names (when the keys compare): each file's key is less
\* than the key of every file after it; and for b.png, a.jpg, 10.webp, 2.jpg
\* the result is 2.jpg, 10.webp, a.jpg, b.png.
C6_GatherOrdersByNumericKey ==
    probe.op = "gather" =>
        /\ (\A a, b \in ProbeNames : KeyCmp(a, b) # "TypeError") =>
              \A i, j \in 1..Len(probe.result) :
                  i < j => KeyCmp(Name(probe.result[i]), Name(probe.result[j])) = "lt"
        /\ ProbeNames = {NameB, NameA, Name10, Name2} =>
              probe.result = [k \in 1..4 |-> ProbeVol \o << <<Name2, Name10, NameA, NameB>>[k] >>]

\* C9: the keys of any two names compare without error, one way round the
\* reverse of the other, and sorting a list of files by the key of their names
\* succeeds.
C9_KeysTotallyOrdered ==
    /\ probe.op = "cmp" =>
          /\ probe.result \in {"lt", "eq", "gt"}
          /\ probe.result = "lt" <=> KeyCmp(probe.b, probe.a) = "gt"
          /\ probe.result = "eq" <=> probe.a = probe.b
    /\ probe.op = "epub" => probe.result.ok

HasDigitRun(name) == \E i \in 1..Len(name) : IsDigit(name[i])

\* C17: the key of ch2.jpg is less than the key of ch10.jpg, which is less
\* than the key of ch10a.jpg; and the key of every name with a digit run is
\* less than the key of every name without one, whatever the number.
C17_NumbersBeforeDigitFree ==
    /\ KeyCmp(NameCh2, NameCh10) = "lt"
    /\ KeyCmp(NameCh10, NameCh10a) = "lt"
    /\ (probe.op = "cmp" /\ HasDigitRun(probe.a) /\ ~HasDigitRun(probe.b)) =>
          probe.result = "lt"

\* ------------------------------------------------------------------------
\* The grouping and the output paths on their own
\* ------------------------------------------------------------------------

\* The most folders in the list grouped.
MaxGroupFolders == 3

LabelTankobon == <<"U5355", "U884C", "U672C">>
LabelTankobonTrad == <<"U55AE", "U884C", "U672C">>
LabelDefault == <<"U9ED8", "U8A8D">>
LabelOtherScan == <<"U5176", "U4ED6", "U6C49", "U5316", "U7248">>

\* SeriesA/<label>/Vol1, SeriesA/<label>/Vol2 and SeriesB/Vol1.
GroupA1 == <<Library, SeriesA, LabelTankobon, <<"V", "o", "l", "1">> >>
GroupA2 == <<Library, SeriesA, LabelTankobon, <<"V", "o", "l", "2">> >>
GroupB1 == <<Library, SeriesB, <<"V", "o", "l", "1">> >>
\* Volumes whose folder name is only their number.
GroupA3 == <<Library, SeriesA, LabelTankobonTrad, <<"0", "1">> >>
GroupA4 == <<Library, SeriesA, LabelDefault, <<"0", "2">> >>
\* A volume folder with the name the merged file gets.
GroupB2 == <<Library, SeriesB, LabelOtherScan, <<"U603B", "U96C6">> >>
\* Two series whose names differ in a character safe_filename replaces.
GroupC1 == <<Library, <<"S", ":", "B">>, <<"V", "o", "l", "1">> >>
GroupD1 == <<Library, <<"S", "_", "B">>, <<"V", "o", "l", "1">> >>

GroupPool == {GroupA1, GroupA2, GroupB1, GroupA3, GroupA4, GroupB2, GroupC1, GroupD1}

\* No worker running; a list of folders and the two options.
InitGroup ==
    /\ folders \in DistinctSeqs(GroupPool, MaxGroupFolders)
    /\ export_pdf \in BOOLEAN
    /\ do_merge \in BOOLEAN
    /\ disk = <<>>
    /\ outFiles = <<>>
    /\ scratchDirs = 0
    /\ _stop = FALSE
    /\ pc = "idle"
    /\ groups = <<>>
    /\ si = 0
    /\ vi = 0
    /\ imgs = <<>>
    /\ emits = <<>>
    /\ encodes = <<>>
    /\ stopAt = NoStop
    /\ faulted = FALSE
    /\ probe = NoProbe
    /\ uiFolders = <<>>
    /\ running = 0
    /\ runNo = 0
    /\ delivered = <<>>

\* The output files of a grouping: one per volume, and one per series when
\* the merge is asked for (vi = 0).
Targets(gs) ==
    UNION {
        {[si |-> k, vi |-> j, out |-> VolOutPath(gs[k].name, gs[k].vols[j])] :
            j \in 1..Len(gs[k].vols)}
        \cup (IF do_merge
              THEN {[si |-> k, vi |-> 0, out |-> MergedName(gs[k].name)]}
              ELSE {})
        : k \in 1..Len(gs)}

\* The grouping loop of run on the list.
ProbeGroup ==
    /\ pc = "idle"
    /\ probe' = [op |-> "group", result |-> Groups(folders)]
    /\ UNCHANGED <<workerVars, uiVars>>

\* The output paths run computes for the volumes and merges of the list.
ProbeTargets ==
    /\ pc = "idle"
    /\ probe' = [op |-> "targets", result |-> Targets(Groups(folders))]
    /\ UNCHANGED <<workerVars, uiVars>>

NextGroup ==
    \/ ProbeGroup
    \/ ProbeTargets

SpecGroup == InitGroup /\ [][NextGroup]_vars

\* The series name the rule gives a folder: its parent's name, or its
\* grandparent's when the parent is named by one of the four labels.
SeriesNameRule(f) ==
    IF Name(Parent(f)) \in {<<"U5355", "U884C", "U672C">>,
                            <<"U55AE", "U884C", "U672C">>,
                            <<"U9ED8", "U8A8D">>,
                            <<"U5176", "U4ED6", "U6C49", "U5316", "U7248">>}
    THEN Name(Parent(Parent(f)))
    ELSE Name(Parent(f))

GroupNameOf(gs, f) ==
    {gs[k].name : k \in {k2 \in 1..Len(gs) :
                            \E j \in 1..Len(gs[k2].vols) : gs[k2].vols[j] = f}}

\* C12: every folder of the list is classified under the series named by its
\* parent folder, or by its grandparent when the parent's name is one of the
\* four wrapper labels; SeriesA/<label>/Vol1 and SeriesA/<label>/Vol2 fall
\* into SeriesA, SeriesB/Vol1 into SeriesB.
C12_SeriesClassification ==
    probe.op = "group" =>
        /\ \A f \in Folders : GroupNameOf(probe.result, f) = {SeriesNameRule(f)}
        /\ GroupA1 \in Folders => GroupNameOf(probe.result, GroupA1) = {SeriesA}
        /\ GroupA2 \in Folders => GroupNameOf(probe.result, GroupA2) = {SeriesA}
        /\ GroupB1 \in Folders => GroupNameOf(probe.result, GroupB1) = {SeriesB}

\* The three folders of the example, grouped into two series.
C12_Witness ==
    /\ probe.op = "group"
    /\ Folders = {GroupA1, GroupA2, GroupB1}
    /\ Len(probe.result) = 2

\* C18: the volumes and merges of one list are written to different files:
\* no two of them have the same output path.
C18_DistinctOutputPaths ==
    probe.op = "targets" =>
        \A a, b \in probe.result : a # b => a.out # b.out

\* ------------------------------------------------------------------------
\* The PDF encoder on its own
\* ------------------------------------------------------------------------

\* The most paths in the list handed to convert_images_to_pdf.
MaxPdfInputs == 3

PdfPool == {FileA1p1, FileA1p2, FileA2p1, FileB1p1}

PdfOut == OutDir \o <<SeriesA, <<"V", "1">> \o ExtPdf>>

\* No worker; some of the files on disk, some of them undecodable, and a list
\* of paths (imgs) of which some may no longer exist.
InitPdf ==
    /\ \E present \in SUBSET PdfPool : disk \in [present -> {"ok", "corrupt"}]
    /\ imgs \in DistinctSeqs(PdfPool, MaxPdfInputs)
    /\ folders = <<>>
    /\ export_pdf = TRUE
    /\ do_merge = FALSE
    /\ outFiles = <<>>
    /\ scratchDirs = 0
    /\ _stop = FALSE
    /\ pc = "idle"
    /\ groups = <<>>
    /\ si = 0
    /\ vi = 0
    /\ emits = <<>>
    /\ encodes = <<>>
    /\ stopAt = NoStop
    /\ faulted = FALSE
    /\ probe = NoProbe
    /\ uiFolders = <<>>
    /\ running = 0
    /\ runNo = 0
    /\ delivered = <<>>

\* convert_images_to_pdf on the list, the output file not there before.
ProbePdf ==
    /\ pc = "idle"
    /\ probe' = [op |-> "pdf", input |-> imgs,
                 result |-> convert_images_to_pdf(imgs, PdfOut, <<>>)]
    /\ UNCHANGED <<workerVars, uiVars>>

NextPdf == ProbePdf

SpecPdf == InitPdf /\ [][NextPdf]_vars

\* The paths of a list that exist.
Existing(paths) == SelectSeq(paths, LAMBDA f : f \in DOMAIN disk)

\* C14: when no path of the list exists (the list is empty or all its paths
\* are gone) the PDF encoder reports failure with a diagnostic and leaves no
\* file at the output path; and when some paths exist and are readable, the
\* missing ones are passed over: the encoder succeeds with one page per
\* existing path.
C14_PdfZeroValidImages ==
    probe.op = "pdf" =>
        /\ Existing(probe.input) = <<>> =>
              /\ ~probe.result.ok
              /\ probe.result.err # "None"
              /\ PdfOut \notin DOMAIN probe.result.outs
        /\ (/\ Existing(probe.input) # <<>>
            /\ \A i \in 1..Len(Existing(probe.input)) :
                  disk[Existing(probe.input)[i]] = "ok") =>
              /\ probe.result.ok
              /\ Len(probe.result.outs[PdfOut].pages) = Len(Existing(probe.input))

\* ------------------------------------------------------------------------
\* The window, its worker and the signals between them
\* ------------------------------------------------------------------------

\* The most folders in the window's list, and the most workers it creates.
MaxUiFolders == 2
MaxRuns == 2

\* The folders the user picks from.
UiPool == {VolA1, VolB2}

\* The window open, no worker yet.  The list holds folders added earlier.
InitUI ==
    /\ disk = [f \in LibraryFiles |-> "ok"]
    /\ uiFolders \in DistinctSeqs(UiPool, MaxUiFolders)
    /\ folders = <<>>
    /\ export_pdf = FALSE
    /\ do_merge = FALSE
    /\ outFiles = <<>>
    /\ scratchDirs = 0
    /\ _stop = FALSE
    /\ pc = "idle"
    /\ groups = <<>>
    /\ si = 0
    /\ vi = 0
    /\ imgs = <<>>
    /\ emits = <<>>
    /\ encodes = <<>>
    /\ stopAt = NoStop
    /\ faulted = FALSE
    /\ probe = NoProbe
    /\ running = 0
    /\ runNo = 0
    /\ delivered = <<>>

UiFolderSet == {uiFolders[k] : k \in 1..Len(uiFolders)}

\* on_add_volume: a folder with images that is not in the list is appended.
on_add_volume ==
    /\ Len(uiFolders) < MaxUiFolders
    /\ \E f \in UiPool :
          /\ gather_images(f) # <<>>
          /\ f \notin UiFolderSet
          /\ uiFolders' = Append(uiFolders, f)
    /\ UNCHANGED <<workerVars, probe, running, runNo, delivered>>

\* on_remove, one item selected.
on_remove ==
    /\ \E k \in 1..Len(uiFolders) :
          uiFolders' = SelectSeq(uiFolders, LAMBDA f : f # uiFolders[k])
    /\ UNCHANGED <<workerVars, probe, running, runNo, delivered>>

\* on_clear.
on_clear ==
    /\ uiFolders # <<>>
    /\ uiFolders' = <<>>
    /\ UNCHANGED <<workerVars, probe, running, runNo, delivered>>

\* The test of on_start_stop, were it made on the stop flag (the button's
\* label) instead of on the thread.
WorkerIsRunningByLabel == runNo > 0 /\ pc # "idle" /\ ~_stop

\* self.worker and self.worker.isRunning()
WorkerIsRunning == runNo > 0 /\ pc # "idle"

\* on_start_stop: stop() on the running worker, or else a new worker on a
\* copy of the list, with the options of the window, started.
on_start_stop ==
    \/ /\ WorkerIsRunning
       /\ _stop' = TRUE
       /\ stopAt' = IF stopAt.pc = "none"
                    THEN [pc |-> pc, si |-> si, vi |-> vi, n |-> Len(encodes)]
                    ELSE stopAt
       /\ UNCHANGED <<inputVars, uiVars, outFiles, scratchDirs, pc, groups, si, vi,
                      imgs, emits, encodes, faulted>>
    \/ /\ ~WorkerIsRunning
       /\ uiFolders # <<>>
       /\ runNo < MaxRuns
       /\ folders' = uiFolders
       /\ export_pdf' \in BOOLEAN
       /\ do_merge' \in BOOLEAN
       /\ _stop' = FALSE
       /\ pc' = "start"
       /\ groups' = <<>>
       /\ si' = 0
       /\ vi' = 0
       /\ imgs' = <<>>
       /\ emits' = <<>>
       /\ encodes' = <<>>
       /\ stopAt' = NoStop
       /\ faulted' = FALSE
       /\ runNo' = runNo + 1
       /\ running' = running + 1
       /\ delivered' = <<>>
       /\ UNCHANGED <<disk, outFiles, scratchDirs, probe, uiFolders>>

\* run has returned: the thread ends, isRunning() is false from here on.
ThreadExit ==
    /\ pc = "done"
    /\ pc' = "idle"
    /\ running' = running - 1
    /\ UNCHANGED <<disk, outFiles, scratchDirs, folders, export_pdf, do_merge, _stop,
                   groups, si, vi, imgs, emits, encodes, stopAt, faulted, probe,
                   uiFolders, runNo, delivered>>

NextUI ==
    \/ on_add_volume
    \/ on_remove
    \/ on_clear
    \/ on_start_stop
    \/ ThreadExit
    \/ RunGroup
    \/ SeriesStart
    \/ SeriesMkdirRaises
    \/ AllDone
    \/ VolCancelled
    \/ VolNoImages
    \/ VolEncodeStart
    \/ VolEncodeReturn
    \/ MergeSkip
    \/ MergeNoImages
    \/ MergeEncodeStart
    \/ MergeEncodeReturn
    \/ Finally

SpecUI == InitUI /\ [][NextUI]_vars

\* C19: at most one worker thread is running at any time; while a worker is
\* running no step creates a worker or changes the list the worker was given,
\* whatever is added to, removed from or cleared in the window's list; and a
\* click on the start/stop button while a worker is running sets its stop
\* flag and changes nothing else of the worker or the window.
C19_OneWorkerOwnCopy ==
    /\ [](running <= 1)
    /\ [][(runNo > 0 /\ pc # "idle") =>
            /\ runNo' = runNo
            /\ running' <= running
            /\ folders' = folders]_vars
    /\ [][(runNo > 0 /\ pc # "idle" /\ on_start_stop) =>
            /\ _stop' = TRUE
            /\ UNCHANGED <<inputVars, uiVars, outFiles, scratchDirs, pc, groups,
                           si, vi, imgs, emits, encodes, faulted>>]_vars

\* The second worker at work on a list the window no longer shows, its stop
\* flag set by a click.
C19_Witness ==
    /\ runNo = 2
    /\ running = 1
    /\ pc = "encode"
    /\ _stop
    /\ uiFolders # folders

\* ------------------------------------------------------------------------
\* The signals of a worker and the slots of the window
\* ------------------------------------------------------------------------

SignalVolumes == {VolA1, VolB1, VolB2}

\* A worker constructed and started, its signals connected; the second page
\* of VolB1 is undecodable.
InitSignals ==
    /\ disk = [f \in LibraryFiles |-> IF f = FileB1p2 THEN "corrupt" ELSE "ok"]
    /\ folders \in DistinctSeqs(SignalVolumes, MaxFolders)
    /\ export_pdf \in BOOLEAN
    /\ do_merge \in BOOLEAN
    /\ outFiles = <<>>
    /\ scratchDirs = 0
    /\ _stop = FALSE
    /\ pc = "start"
    /\ groups = <<>>
    /\ si = 0
    /\ vi = 0
    /\ imgs = <<>>
    /\ emits = <<>>
    /\ encodes = <<>>
    /\ stopAt = NoStop
    /\ faulted = FALSE
    /\ probe = NoProbe
    /\ uiFolders = folders
    /\ running = 1
    /\ runNo = 1
    /\ delivered = <<>>

Delivered == {delivered[k] : k \in 1..Len(delivered)}

\* The signals emitted and not yet delivered, by number.
InFlight == (1..Len(emits)) \ Delivered

\* The slot run for a queued signal, were the newest signal in flight taken.
DeliverLatest ==
    /\ InFlight # {}
    /\ delivered' = Append(delivered, CHOOSE n \in InFlight : \A m \in InFlight : m <= n)
    /\ UNCHANGED <<workerVars, probe, uiFolders, running, runNo>>

\* log_msg or on_worker_finished run for a signal of the worker: the signals
\* are queued to the window's thread and taken oldest first.
Deliver ==
    /\ InFlight # {}
    /\ delivered' = Append(delivered, CHOOSE n \in InFlight : \A m \in InFlight : n <= m)
    /\ UNCHANGED <<workerVars, probe, uiFolders, running, runNo>>

NextSignals ==
    \/ stop
    \/ RunEmpty
    \/ RunGroup
    \/ SeriesStart
    \/ SeriesMkdirRaises
    \/ AllDone
    \/ VolCancelled
    \/ VolNoImages
    \/ VolEncodeStart
    \/ VolEncodeReturn
    \/ MergeSkip
    \/ MergeNoImages
    \/ MergeEncodeStart
    \/ MergeEncodeReturn
    \/ Finally
    \/ Deliver

SpecSignals == InitSignals /\ [][NextSignals]_vars

\* What run emits for the volumes of a series, in order: for each volume its
\* processing message and then one of its three outcomes.
RECURSIVE VolsSkeleton(_, _)
VolsSkeleton(manga_name, vols) ==
    IF vols = <<>> THEN <<>>
    ELSE << {Ev("processing", StripOrdinal(Name(Head(vols))))},
            {Ev("noImages", Head(vols)),
             Ev("ok", VolOutPath(manga_name, Head(vols))),
             Ev("fail", VolOutPath(manga_name, Head(vols)))} >>
         \o VolsSkeleton(manga_name, Tail(vols))

\* What run emits for the series, in order: the series' first message, its
\* volumes, and with the merge asked for the merge's message and outcome.
RECURSIVE Skeleton(_)
Skeleton(gs) ==
    IF gs = <<>> THEN <<>>
    ELSE << {Ev("series", gs[1].name)} >>
         \o VolsSkeleton(gs[1].name, gs[1].vols)
         \o (IF do_merge
             THEN << {Ev("mergeStart", gs[1].name)},
                     {Ev("mergeNoImages", <<>>),
                      Ev("mergeOk", MergedName(gs[1].name)),
                      Ev("mergeFail", MergedName(gs[1].name))} >>
             ELSE <<>>)
         \o Skeleton(Tail(gs))

====
